---- MODULE Spec2Model ----
(***************************************************************************)
(* The transform object model of src/libs/transform.js: the constructors,  *)
(* equal / equalColumns and run(env, df) of every transform class, run     *)
(* against an Environment (datasets, log, plots, statistics) and           *)
(* dataframes.                                                             *)
(***************************************************************************)
EXTENDS Integers, Sequences, FiniteSets, TLC

\* ---------------------------------------------------------------- bounds

\* Longest pipeline (sequence of transforms) the driver runs.
MaxStages == 2

\* ------------------------------------------------------ JavaScript values
\* Every JavaScript value is a record whose field t is its type tag, so that
\* values of different types can be compared.

Str(s) == [t |-> "string", v |-> s]
Num(n) == [t |-> "number", v |-> n]
Bool(b) == [t |-> "boolean", v |-> b]
Arr(s) == [t |-> "array", v |-> s]
Null == [t |-> "null"]
Undefined == [t |-> "undefined"]

IsString(x) == x.t = "string"
IsNumber(x) == x.t = "number"
IsBoolean(x) == x.t = "boolean"
IsArray(x) == x.t = "array"

\* JavaScript truthiness of a value (`x && ...`).
Truthy(x) ==
  CASE x.t = "string" -> x.v # ""
    [] x.t = "number" -> x.v # 0
    [] x.t = "boolean" -> x.v
    [] x.t = "null" -> FALSE
    [] x.t = "undefined" -> FALSE
    [] OTHER -> TRUE

\* An expression object (an instance of ExprBase): the test "column col
\* holds val".
Expr(col, val) == [t |-> "expr", col |-> col, val |-> val]
IsExpr(x) == x.t = "expr"

\* What a failed util.check leaves instead of an object or a result.
Thrown(msg) == [thrown |-> msg]
IsThrown(x) == DOMAIN x = {"thrown"}

\* A subclass constructor's own fields, added after super(...) returned.
Extend(base, fields) == IF IsThrown(base) THEN base ELSE fields @@ base

Range(s) == {s[i] : i \in DOMAIN s}

\* ------------------------------------------------------------ constructors

TransformBase(name, requires, produces, input, output) ==
  IF /\ name # ""
     /\ IsArray(requires)
     /\ \A i \in DOMAIN requires.v : IsString(requires.v[i])
     /\ (produces = Null \/ IsString(produces))
  THEN [name |-> name, requires |-> requires, produces |-> produces,
        input |-> input, output |-> output]
  ELSE Thrown("Bad parameters to constructor")

TransformData(dataset) ==
  IF ~IsString(dataset) THEN Thrown("Expected string")
  ELSE Extend(TransformBase("read", Arr(<<>>), Null, FALSE, TRUE),
              [dataset |-> dataset])

TransformDrop(columns) ==
  IF ~IsArray(columns) THEN Thrown("Expected array of columns")
  ELSE Extend(TransformBase("drop", Arr(<<>>), Null, TRUE, TRUE),
              [columns |-> columns])

TransformFilter(expr) ==
  IF ~IsExpr(expr) THEN Thrown("Expected expression")
  ELSE Extend(TransformBase("filter", Arr(<<>>), Null, TRUE, TRUE),
              [expr |-> expr])

TransformGroupBy(columns) ==
  IF ~IsArray(columns) THEN Thrown("Expected array of columns")
  ELSE Extend(TransformBase("groupBy", Arr(<<>>), Null, TRUE, TRUE),
              [columns |-> columns])

TransformJoin(leftName, leftCol, rightName, rightCol) ==
  Extend(TransformBase("join", Arr(<<leftName, rightName>>), Null, FALSE, TRUE),
         [leftName |-> leftName, leftCol |-> leftCol,
          rightName |-> rightName, rightCol |-> rightCol])

TransformMutate(newName, expr) ==
  IF ~IsString(newName) THEN Thrown("Expected string as new name")
  ELSE IF ~IsExpr(expr) THEN Thrown("Expected expression")
  ELSE Extend(TransformBase("mutate", Arr(<<>>), Null, TRUE, TRUE),
              [newName |-> newName, expr |-> expr])

TransformNotify(label) ==
  IF ~IsString(label) THEN Thrown("Expected string")
  ELSE Extend(TransformBase("notify", Arr(<<>>), label, TRUE, FALSE),
              [label |-> label])

TransformSelect(columns) ==
  IF ~IsArray(columns) THEN Thrown("Expected array of columns")
  ELSE Extend(TransformBase("select", Arr(<<>>), Null, TRUE, TRUE),
              [columns |-> columns])

TransformSequence(newName, limit) ==
  IF ~IsString(newName) THEN Thrown("Expected string as new name")
  ELSE Extend(TransformBase("sequence", Arr(<<>>), Null, TRUE, TRUE),
              [newName |-> newName, limit |-> limit])

TransformSort(columns, reverse) ==
  IF ~IsArray(columns) THEN Thrown("Expected array of columns")
  ELSE IF ~IsBoolean(reverse) THEN Thrown("Expected Boolean")
  ELSE Extend(TransformBase("sort", Arr(<<>>), Null, TRUE, TRUE),
              [columns |-> columns, reverse |-> reverse])

\* The summarizers the Summarize module exports: the registry, the own
\* properties of the object require('./summarize') gives.
Summarize ==
  {"count", "maximum", "mean", "median", "minimum", "stdDev", "sum", "variance"}

\* The properties every plain object inherits from Object.prototype.
ObjectPrototype ==
  {"constructor", "hasOwnProperty", "isPrototypeOf", "propertyIsEnumerable",
   "toLocaleString", "toString", "valueOf", "__proto__"}

\* key in object: true of own and of inherited properties alike.
In(key, own) == key \in own \cup ObjectPrototype

TransformSummarize(op, column) ==
  IF ~IsString(op) THEN Thrown("Expected string as op")
  ELSE IF ~In(op.v, Summarize) THEN Thrown("Unknown summarization operation")
  ELSE IF ~IsString(column) THEN Thrown("Expected string as column name")
  ELSE Extend(TransformBase("summarize", Arr(<<>>), Null, TRUE, TRUE),
              [op |-> op, column |-> column])

TransformUngroup ==
  TransformBase("ungroup", Arr(<<>>), Null, TRUE, TRUE)

TransformUnique(columns) ==
  IF ~IsArray(columns) THEN Thrown("Expected array of columns")
  ELSE Extend(TransformBase("unique", Arr(<<>>), Null, TRUE, TRUE),
              [columns |-> columns])

\* spec = Object.assign({}, spec, fillin, {name}): later sources win.
TransformPlot(name, label, spec, fillin) ==
  IF ~(Truthy(label) /\ IsString(label))
  THEN Thrown("Must provide non-empty label")
  ELSE Extend(TransformBase(name, Arr(<<>>), Null, TRUE, FALSE),
              [label |-> label, spec |-> [name |-> name] @@ fillin @@ spec])

NonEmptyString(x) == Truthy(x) /\ IsString(x)

TransformBar(label, axisX, axisY) ==
  IF ~(NonEmptyString(axisX) /\ NonEmptyString(axisY))
  THEN Thrown("Must provide non-empty strings for axes")
  ELSE TransformPlot("bar", label,
         [data |-> [values |-> Null], mark |-> "bar",
          encoding |-> [x |-> axisX, y |-> axisY, tooltip |-> axisY]],
         [axisX |-> axisX, axisY |-> axisY])

TransformBox(label, axisX, axisY) ==
  IF ~(NonEmptyString(axisX) /\ NonEmptyString(axisY))
  THEN Thrown("Must provide non-empty strings for axes")
  ELSE TransformPlot("box", label,
         [data |-> [values |-> Null], mark |-> "boxplot",
          encoding |-> [x |-> axisX, y |-> axisY]],
         [axisX |-> axisX, axisY |-> axisY])

TransformDot(label, axisX) ==
  IF ~NonEmptyString(axisX)
  THEN Thrown("Must provide non-empty string for axis")
  ELSE TransformPlot("dot", label,
         [data |-> [values |-> Null], mark |-> "circle",
          transform |-> [groupby |-> axisX],
          encoding |-> [x |-> axisX, y |-> Str("id")]],
         [axisX |-> axisX])

TransformHistogram(label, column, bins) ==
  IF ~(NonEmptyString(column) /\ IsNumber(bins) /\ bins.v > 0)
  THEN Thrown("Invalid parameters for histogram")
  ELSE TransformPlot("histogram", label,
         [data |-> [values |-> Null], mark |-> "bar",
          encoding |-> [x |-> column, maxbins |-> bins, tooltip |-> Null]],
         [column |-> column, bins |-> bins])

TransformScatter(label, axisX, axisY, color) ==
  IF ~(NonEmptyString(axisX) /\ NonEmptyString(axisY))
  THEN Thrown("Must provide non-empty strings for axes")
  ELSE IF ~(color = Null \/ NonEmptyString(color))
  THEN Thrown("Must provide null or non-empty string for color")
  ELSE TransformPlot("scatter", label,
         [data |-> [values |-> Null], mark |-> "point",
          encoding |-> IF Truthy(color)
                       THEN [x |-> axisX, y |-> axisY, color |-> color]
                       ELSE [x |-> axisX, y |-> axisY]],
         [axisX |-> axisX, axisY |-> axisY, color |-> color])

TransformTTestOneSample(label, colName, mean) ==
  Extend(TransformBase("ttest_one", Arr(<<>>), Null, TRUE, FALSE),
         [label |-> label, colName |-> colName, mean |-> mean])

TransformTTestPaired(label, labelCol, valueCol) ==
  Extend(TransformBase("ttest_two", Arr(<<>>), Null, TRUE, FALSE),
         [label |-> label, labelCol |-> labelCol, valueCol |-> valueCol])

\* ------------------------------------------------------------------ equal
\* equal and equalColumns return true or false, or throw (a failed util.check).

\* A call that returned v (and did not throw).
Returned(v) == [result |-> v]

\* expr.equal(other) of ExprBase: structural equality of the expressions.
Expr_equal(this, other) == this = other

TransformBase_equal(this, other) ==
  this.name = other.name

TransformBase_equalColumns(this, other) ==
  IF "columns" \notin DOMAIN this THEN Thrown("This object must have columns")
  ELSE IF "columns" \notin DOMAIN other
  THEN Thrown("Other object must have columns")
  ELSE Returned(/\ this.name = other.name
                /\ Len(this.columns.v) = Len(other.columns.v)
                /\ \A i \in DOMAIN this.columns.v :
                     this.columns.v[i] \in Range(other.columns.v))

TransformData_equal(this, other) ==
  TransformBase_equal(this, other) /\ this.dataset = other.dataset

TransformDrop_equal(this, other) == TransformBase_equalColumns(this, other)

TransformFilter_equal(this, other) ==
  TransformBase_equal(this, other) /\ Expr_equal(this.expr, other.expr)

TransformGroupBy_equal(this, other) == TransformBase_equalColumns(this, other)

TransformJoin_equal(this, other) ==
  /\ TransformBase_equal(this, other)
  /\ this.leftName = other.leftName
  /\ this.leftCol = other.leftCol
  /\ this.rightName = other.rightName
  /\ this.rightCol = other.rightCol

TransformMutate_equal(this, other) ==
  /\ TransformBase_equal(this, other)
  /\ this.newName = other.newName
  /\ Expr_equal(this.expr, other.expr)

TransformNotify_equal(this, other) ==
  TransformBase_equal(this, other) /\ this.label = other.label

TransformSelect_equal(this, other) == TransformBase_equalColumns(this, other)

TransformSequence_equal(this, other) ==
  /\ TransformBase_equal(this, other)
  /\ this.newName = other.newName
  /\ this.limit = other.limit

TransformSort_equal(this, other) == TransformBase_equalColumns(this, other)

TransformSummarize_equal(this, other) ==
  /\ TransformBase_equal(this, other)
  /\ this.op = other.op
  /\ this.column = other.column

TransformUnique_equal(this, other) == TransformBase_equalColumns(this, other)

\* this.equal(other): the method of this's class; ungroup, the plots and the
\* t-tests inherit TransformBase.equal.
equal(this, other) ==
  CASE this.name = "read" -> Returned(TransformData_equal(this, other))
    [] this.name = "drop" -> TransformDrop_equal(this, other)
    [] this.name = "filter" -> Returned(TransformFilter_equal(this, other))
    [] this.name = "groupBy" -> TransformGroupBy_equal(this, other)
    [] this.name = "join" -> Returned(TransformJoin_equal(this, other))
    [] this.name = "mutate" -> Returned(TransformMutate_equal(this, other))
    [] this.name = "notify" -> Returned(TransformNotify_equal(this, other))
    [] this.name = "select" -> TransformSelect_equal(this, other)
    [] this.name = "sequence" -> Returned(TransformSequence_equal(this, other))
    [] this.name = "sort" -> TransformSort_equal(this, other)
    [] this.name = "summarize" -> Returned(TransformSummarize_equal(this, other))
    [] this.name = "unique" -> TransformUnique_equal(this, other)
    [] OTHER -> Returned(TransformBase_equal(this, other))

\* -------------------------------------------------------------- DataFrame
\* A dataframe object: its identity, its rows (an array of rows, each a
\* function from column names to values) and its column names.

DataFrame(id, data, columns) ==
  [t |-> "df", id |-> id, data |-> data, columns |-> columns]

IsDataFrame(x) == "t" \in DOMAIN x /\ x.t = "df"

\* The content of a dataframe: everything but its identity.
Content(df) == [data |-> df.data, columns |-> df.columns]

\* row[col]: undefined when the row has no such property.
PropertyKey(col) == IF IsString(col) THEN col.v ELSE "undefined"
Cell(row, col) == IF col \in DOMAIN row THEN row[col] ELSE Undefined

Restrict(row, keep) == [c \in DOMAIN row \cap keep |-> row[c]]
Names(columns) == {PropertyKey(c) : c \in Range(columns.v)}
Map(s, F(_)) == [i \in DOMAIN s |-> F(s[i])]
Key(row, names) == [c \in names |-> Cell(row, c)]

RECURSIVE Flatten(_)
Flatten(ss) == IF ss = <<>> THEN <<>> ELSE Head(ss) \o Flatten(Tail(ss))

\* expr.run(row): does the row's column hold the value?
Expr_run(expr, row) == Bool(Cell(row, expr.col) = expr.val)

DataFrame_drop(rows, columns) ==
  Map(rows, LAMBDA r : Restrict(r, DOMAIN r \ Names(columns)))

DataFrame_select(rows, columns) ==
  Map(rows, LAMBDA r : Restrict(r, Names(columns)))

DataFrame_filter(rows, expr) ==
  SelectSeq(rows, LAMBDA r : Truthy(Expr_run(expr, r)))

\* Each row gets the index of the first row with the same key as its group.
DataFrame_groupBy(rows, columns) ==
  [i \in DOMAIN rows |->
     [_group_ |-> Num(CHOOSE j \in DOMAIN rows :
                        /\ Key(rows[j], Names(columns)) = Key(rows[i], Names(columns))
                        /\ \A k \in 1..(j - 1) :
                             Key(rows[k], Names(columns)) # Key(rows[i], Names(columns)))]
       @@ rows[i]]

DataFrame_ungroup(rows) ==
  Map(rows, LAMBDA r : Restrict(r, DOMAIN r \ {"_group_"}))

DataFrame_mutate(rows, newName, expr) ==
  Map(rows, LAMBDA r : (PropertyKey(newName) :> Expr_run(expr, r)) @@ r)

\* The rank of a value in the sort order.
Rank(x) ==
  CASE x.t = "number" -> x.v
    [] x = Str("x") -> 1
    [] x = Str("y") -> 2
    [] x = Str("z") -> 3
    [] OTHER -> 0

RECURSIVE Before(_, _, _)
\* Does row r sort strictly before row q by the listed columns?
Before(r, q, cols) ==
  IF cols = <<>> THEN FALSE
  ELSE LET a == Rank(Cell(r, PropertyKey(Head(cols))))
           b == Rank(Cell(q, PropertyKey(Head(cols))))
       IN IF a # b THEN a < b ELSE Before(r, q, Tail(cols))

RECURSIVE Insert(_, _, _)
Insert(sorted, r, cols) ==
  IF sorted = <<>> THEN <<r>>
  ELSE IF Before(r, Head(sorted), cols) THEN <<r>> \o sorted
  ELSE <<Head(sorted)>> \o Insert(Tail(sorted), r, cols)

RECURSIVE Sorted(_, _)
Sorted(rows, cols) ==
  IF rows = <<>> THEN <<>>
  ELSE Insert(Sorted(SubSeq(rows, 1, Len(rows) - 1), cols), rows[Len(rows)], cols)

Reverse(s) == [i \in DOMAIN s |-> s[Len(s) + 1 - i]]

DataFrame_sort(rows, columns, reverse) ==
  IF Truthy(reverse) THEN Reverse(Sorted(rows, columns.v))
  ELSE Sorted(rows, columns.v)

RECURSIVE Sum(_)
Sum(s) == IF s = <<>> THEN 0 ELSE Rank(Head(s)) + Sum(Tail(s))

\* new Summarize[op](column) applied to the rows: one value for the column.
Summarizer(op, column, rows) ==
  LET vals == Map(rows, LAMBDA r : Cell(r, PropertyKey(column)))
  IN CASE op.v = "count" -> Num(Len(vals))
       [] op.v = "sum" -> Num(Sum(vals))
       [] OTHER -> [t |-> "summary", op |-> op.v, of |-> vals]

DataFrame_summarize(rows, op, column) ==
  Map(rows, LAMBDA r : ("_summary_" :> Summarizer(op, column, rows)) @@ r)

DataFrame_unique(rows, columns) ==
  LET keep == {i \in DOMAIN rows :
                 \A k \in 1..(i - 1) :
                   Key(rows[k], Names(columns)) # Key(rows[i], Names(columns))}
      RECURSIVE Pick(_)
      Pick(i) == IF i > Len(rows) THEN <<>>
                 ELSE (IF i \in keep THEN <<rows[i]>> ELSE <<>>) \o Pick(i + 1)
  IN Pick(1)

\* Every pair of a left and a right row that agree on the join columns.
DataFrame_join(leftRows, leftName, leftCol, rightRows, rightName, rightCol) ==
  Flatten(Map(leftRows, LAMBDA l :
    Map(SelectSeq(rightRows, LAMBDA r :
          Cell(l, PropertyKey(leftCol)) = Cell(r, PropertyKey(rightCol))),
        LAMBDA r : [_join_ |-> Cell(l, PropertyKey(leftCol)),
                    left |-> [t |-> "object", of |-> leftName, v |-> l],
                    right |-> [t |-> "object", of |-> rightName, v |-> r]])))

\* The column names of rows, as the DataFrame constructor finds them.
ColumnsOf(rows) == UNION {DOMAIN rows[i] : i \in DOMAIN rows}

\* ------------------------------------------------------------ Environment
\* env holds the datasets by name, the log, the plots and the statistics by
\* label, and the names getData was asked for.

Absent == [none |-> TRUE]

appendLog(env, name) == [env EXCEPT !.log = Append(@, name)]

\* What getData(name) gives: the dataset, or an error when it is absent.
getData(env, name) ==
  IF PropertyKey(name) \in DOMAIN env.data /\ env.data[PropertyKey(name)] # Absent
  THEN env.data[PropertyKey(name)]
  ELSE Thrown("DependencyUnavailable")

\* The Environment once getData(name) was called.
Fetching(env, name) == [env EXCEPT !.fetched = Append(@, PropertyKey(name))]

\* The plot store keeps the spec object it is given (a reference to it).
setPlot(env, label, spec) == [env EXCEPT !.plots[PropertyKey(label)] = spec]

setStats(env, label, value) == [env EXCEPT !.stats[PropertyKey(label)] = value]

\* -------------------------------------------------------------------- run
\* run(env, df) works on the world w: the Environment (w.env) and the objects
\* it can reach (w.heap: the next object identity, and the data.values slot
\* of every plot transform's spec object).  It gives the world after the
\* call and what the call returned or threw.

Return(w, value) == [w |-> w, ret |-> value]
Throw(w, msg) == [w |-> w, ret |-> Thrown(msg)]
Logged(w, name) == [w EXCEPT !.env = appendLog(@, name)]

\* new DataFrame(data, columns)
NewDataFrame(w, rows, columns) ==
  Return([w EXCEPT !.heap.nextId = @ + 1],
         DataFrame(w.heap.nextId, Arr(rows), columns))

\* A reader that checks its input before it logs.
TransformData_run_CheckFirst(this, w, df) ==
  LET w1 == Logged(w, this.name)
      w2 == [w1 EXCEPT !.env = Fetching(@, this.dataset)]
      loaded == getData(w1.env, this.dataset)
  IN IF df # Null THEN Throw(w, "Cannot provide input dataframe to reader")
     ELSE IF IsThrown(loaded) THEN Return(w2, loaded)
     ELSE NewDataFrame(w2, loaded.data.v, loaded.columns)

\* A reader that fetches its dataset before it checks its input.
TransformData_run_FetchFirst(this, w, df) ==
  LET w1 == Logged(w, this.name)
      w2 == [w1 EXCEPT !.env = Fetching(@, this.dataset)]
      loaded == getData(w1.env, this.dataset)
  IN IF IsThrown(loaded) THEN Return(w2, loaded)
     ELSE IF df # Null THEN Throw(w2, "Cannot provide input dataframe to reader")
     ELSE NewDataFrame(w2, loaded.data.v, loaded.columns)

TransformData_run(this, w, df) ==
  LET w1 == Logged(w, this.name)
      w2 == [w1 EXCEPT !.env = Fetching(@, this.dataset)]
      loaded == getData(w1.env, this.dataset)
  IN IF df # Null THEN Throw(w1, "Cannot provide input dataframe to reader")
     ELSE IF IsThrown(loaded) THEN Return(w2, loaded)
     ELSE NewDataFrame(w2, loaded.data.v, loaded.columns)

TransformDrop_run(this, w, df) ==
  LET w1 == Logged(w, this.name)
  IN IF ~IsDataFrame(df) THEN Throw(w1, "TypeError")
     ELSE LET rows == DataFrame_drop(df.data.v, this.columns)
          IN NewDataFrame(w1, rows, df.columns \ Names(this.columns))

TransformFilter_run(this, w, df) ==
  LET w1 == Logged(w, this.name)
  IN IF ~IsDataFrame(df) THEN Throw(w1, "TypeError")
     ELSE NewDataFrame(w1, DataFrame_filter(df.data.v, this.expr), df.columns)

TransformGroupBy_run(this, w, df) ==
  LET w1 == Logged(w, this.name)
  IN IF ~IsDataFrame(df) THEN Throw(w1, "TypeError")
     ELSE NewDataFrame(w1, DataFrame_groupBy(df.data.v, this.columns),
                       df.columns \cup {"_group_"})

\* A join that fetches the left dataset for both sides.
TransformJoin_run_LeftOnly(this, w, df) ==
  LET w1 == Logged(w, this.name)
      w2 == [w1 EXCEPT !.env = Fetching(@, this.leftName)]
      left == getData(w1.env, this.leftName)
  IN IF df # Null THEN Throw(w1, "Cannot provide input dataframe to join")
     ELSE IF IsThrown(left) THEN Return(w2, left)
     ELSE NewDataFrame(w2,
            DataFrame_join(left.data.v, this.leftName, this.leftCol,
                           left.data.v, this.rightName, this.rightCol),
            {"_join_", "left", "right"})

TransformJoin_run(this, w, df) ==
  LET w1 == Logged(w, this.name)
      w2 == [w1 EXCEPT !.env = Fetching(@, this.leftName)]
      left == getData(w1.env, this.leftName)
      w3 == [w2 EXCEPT !.env = Fetching(@, this.rightName)]
      right == getData(w2.env, this.rightName)
  IN IF df # Null THEN Throw(w1, "Cannot provide input dataframe to join")
     ELSE IF IsThrown(left) THEN Return(w2, left)
     ELSE IF IsThrown(right) THEN Return(w3, right)
     ELSE NewDataFrame(w3,
            DataFrame_join(left.data.v, this.leftName, this.leftCol,
                           right.data.v, this.rightName, this.rightCol),
            {"_join_", "left", "right"})

TransformMutate_run(this, w, df) ==
  LET w1 == Logged(w, this.name)
  IN IF ~IsDataFrame(df) THEN Throw(w1, "TypeError")
     ELSE NewDataFrame(w1, DataFrame_mutate(df.data.v, this.newName, this.expr),
                       df.columns \cup {PropertyKey(this.newName)})

TransformNotify_run(this, w, df) ==
  Return(Logged(w, this.name), df)

TransformSelect_run(this, w, df) ==
  LET w1 == Logged(w, this.name)
  IN IF ~IsDataFrame(df) THEN Throw(w1, "TypeError")
     ELSE NewDataFrame(w1, DataFrame_select(df.data.v, this.columns),
                       df.columns \cap Names(this.columns))

\* A sequence that goes on counting where the last run stopped.
TransformSequence_run_Counter(this, w, df) ==
  LET w1 == Logged(w, this.name)
      length == IF IsNumber(this.limit) /\ this.limit.v > 0
                THEN this.limit.v ELSE 0
      raw == [k \in 1..length |->
                (PropertyKey(this.newName) :> Num(k + Len(w.env.log)))]
  IN NewDataFrame(w1, raw, ColumnsOf(raw))

\* Array.from({length: limit}, ...): no rows unless limit is a positive number.
TransformSequence_run(this, w, df) ==
  LET w1 == Logged(w, this.name)
      length == IF IsNumber(this.limit) /\ this.limit.v > 0
                THEN this.limit.v ELSE 0
      raw == [k \in 1..length |-> (PropertyKey(this.newName) :> Num(k))]
  IN NewDataFrame(w1, raw, ColumnsOf(raw))

TransformSort_run(this, w, df) ==
  LET w1 == Logged(w, this.name)
  IN IF ~IsDataFrame(df) THEN Throw(w1, "TypeError")
     ELSE NewDataFrame(w1, DataFrame_sort(df.data.v, this.columns, this.reverse),
                       df.columns)

\* new Summarize[this.op](this.column): a TypeError when Summarize[this.op]
\* is an inherited method, which is no constructor.
TransformSummarize_run(this, w, df) ==
  LET w1 == Logged(w, this.name)
  IN IF this.op.v \notin Summarize THEN Throw(w1, "TypeError")
     ELSE IF ~IsDataFrame(df) THEN Throw(w1, "TypeError")
     ELSE NewDataFrame(w1, DataFrame_summarize(df.data.v, this.op, this.column),
                       df.columns \cup {"_summary_"})

TransformUngroup_run(this, w, df) ==
  LET w1 == Logged(w, this.name)
  IN IF ~IsDataFrame(df) THEN Throw(w1, "TypeError")
     ELSE NewDataFrame(w1, DataFrame_ungroup(df.data.v), df.columns \ {"_group_"})

TransformUnique_run(this, w, df) ==
  LET w1 == Logged(w, this.name)
  IN IF ~IsDataFrame(df) THEN Throw(w1, "TypeError")
     ELSE NewDataFrame(w1, DataFrame_unique(df.data.v, this.columns), df.columns)

\* self names the transform object: this.spec is the object w.heap.values[self]
\* belongs to, and it is that object, by reference, setPlot is given.  run has no return
\* statement.
Ref(self) == [ref |-> self]

TransformPlot_run(self, this, w, df) ==
  LET w1 == Logged(w, this.name)
      w2 == [w1 EXCEPT !.heap.values[self] = df.data]
      w3 == [w2 EXCEPT !.env = setPlot(@, this.label, Ref(self))]
  IN IF ~IsDataFrame(df) THEN Throw(w1, "TypeError")
     ELSE Return(w3, Undefined)

\* stats.tTest(samples, mean) and stats.tTestTwoSample(left, right, 0) of the
\* simple-statistics library: the value they compute from their arguments.
tTest(samples, mean) ==
  [t |-> "pValue", test |-> "tTest", samples |-> samples, mean |-> mean]
tTestTwoSample(leftVals, rightVals, difference) ==
  [t |-> "pValue", test |-> "tTestTwoSample", left |-> leftVals,
   right |-> rightVals, difference |-> difference]

TransformTTestOneSample_run(this, w, df) ==
  LET w1 == Logged(w, this.name)
      samples == Map(df.data.v, LAMBDA row : Cell(row, PropertyKey(this.colName)))
      pValue == tTest(samples, this.mean)
  IN IF ~IsDataFrame(df) THEN Throw(w1, "TypeError")
     ELSE Return([w1 EXCEPT !.env = setStats(@, this.label, pValue)], df)

\* A paired test that takes two or more labels.
TransformTTestPaired_run_AtLeastTwo(this, w, df) ==
  LET w1 == Logged(w, this.name)
      labelOf(row) == Cell(row, PropertyKey(this.labelCol))
      known == {labelOf(df.data.v[i]) : i \in DOMAIN df.data.v}
      leftVal == labelOf(df.data.v[1])
      rightVal == CHOOSE l \in known : l # leftVal
      leftVals == Map(SelectSeq(df.data.v, LAMBDA row : labelOf(row) = leftVal),
                      LAMBDA row : Cell(row, PropertyKey(this.valueCol)))
      rightVals == Map(SelectSeq(df.data.v, LAMBDA row : labelOf(row) = rightVal),
                       LAMBDA row : Cell(row, PropertyKey(this.valueCol)))
      pValue == tTestTwoSample(leftVals, rightVals, 0)
  IN IF ~IsDataFrame(df) THEN Throw(w1, "TypeError")
     ELSE IF Cardinality(known) < 2
     THEN Throw(w1, "Must have exactly two labels for data")
     ELSE Return([w1 EXCEPT !.env = setStats(@, this.label, pValue)], df)

\* A paired test that clears its statistic before it checks the labels.
TransformTTestPaired_run_StoreFirst(this, w, df) ==
  LET w1 == Logged(w, this.name)
      w2 == [w1 EXCEPT !.env = setStats(@, this.label, Undefined)]
      labelOf(row) == Cell(row, PropertyKey(this.labelCol))
      known == {labelOf(df.data.v[i]) : i \in DOMAIN df.data.v}
      leftVal == labelOf(df.data.v[1])
      rightVal == CHOOSE l \in known : l # leftVal
      leftVals == Map(SelectSeq(df.data.v, LAMBDA row : labelOf(row) = leftVal),
                      LAMBDA row : Cell(row, PropertyKey(this.valueCol)))
      rightVals == Map(SelectSeq(df.data.v, LAMBDA row : labelOf(row) = rightVal),
                       LAMBDA row : Cell(row, PropertyKey(this.valueCol)))
      pValue == tTestTwoSample(leftVals, rightVals, 0)
  IN IF ~IsDataFrame(df) THEN Throw(w1, "TypeError")
     ELSE IF Cardinality(known) # 2
     THEN Throw(w2, "Must have exactly two labels for data")
     ELSE Return([w2 EXCEPT !.env = setStats(@, this.label, pValue)], df)

\* Array.from(known) lists the labels in the order the rows first show them.
TransformTTestPaired_run(this, w, df) ==
  LET w1 == Logged(w, this.name)
      labelOf(row) == Cell(row, PropertyKey(this.labelCol))
      known == {labelOf(df.data.v[i]) : i \in DOMAIN df.data.v}
      leftVal == labelOf(df.data.v[1])
      rightVal == CHOOSE l \in known : l # leftVal
      leftVals == Map(SelectSeq(df.data.v, LAMBDA row : labelOf(row) = leftVal),
                      LAMBDA row : Cell(row, PropertyKey(this.valueCol)))
      rightVals == Map(SelectSeq(df.data.v, LAMBDA row : labelOf(row) = rightVal),
                       LAMBDA row : Cell(row, PropertyKey(this.valueCol)))
      pValue == tTestTwoSample(leftVals, rightVals, 0)
  IN IF ~IsDataFrame(df) THEN Throw(w1, "TypeError")
     ELSE IF Cardinality(known) # 2
     THEN Throw(w1, "Must have exactly two labels for data")
     ELSE Return([w1 EXCEPT !.env = setStats(@, this.label, pValue)], df)

PlotNames == {"bar", "box", "dot", "histogram", "scatter"}

\* this.run(env, df): the method of this's class.
run(self, this, w, df) ==
  CASE this.name = "read" -> TransformData_run(this, w, df)
    [] this.name = "drop" -> TransformDrop_run(this, w, df)
    [] this.name = "filter" -> TransformFilter_run(this, w, df)
    [] this.name = "groupBy" -> TransformGroupBy_run(this, w, df)
    [] this.name = "join" -> TransformJoin_run(this, w, df)
    [] this.name = "mutate" -> TransformMutate_run(this, w, df)
    [] this.name = "notify" -> TransformNotify_run(this, w, df)
    [] this.name = "select" -> TransformSelect_run(this, w, df)
    [] this.name = "sequence" -> TransformSequence_run(this, w, df)
    [] this.name = "sort" -> TransformSort_run(this, w, df)
    [] this.name = "summarize" -> TransformSummarize_run(this, w, df)
    [] this.name = "ungroup" -> TransformUngroup_run(this, w, df)
    [] this.name = "unique" -> TransformUnique_run(this, w, df)
    [] this.name \in PlotNames -> TransformPlot_run(self, this, w, df)
    [] this.name = "ttest_one" -> TransformTTestOneSample_run(this, w, df)
    [] this.name = "ttest_two" -> TransformTTestPaired_run(this, w, df)

\* -------------------------------------------- constructor calls (inputs)

\* Longest column list given to a constructor.
MaxCols == 2

\* The classes module.exports names.
Classes ==
  {"data", "drop", "filter", "groupBy", "join", "mutate", "notify", "select",
   "sequence", "sort", "summarize", "ungroup", "unique", "bar", "box", "dot",
   "histogram", "scatter", "ttest_one", "ttest_two"}

\* new Classes[class](...args)
New(class, args) ==
  CASE class = "data" -> TransformData(args[1])
    [] class = "drop" -> TransformDrop(args[1])
    [] class = "filter" -> TransformFilter(args[1])
    [] class = "groupBy" -> TransformGroupBy(args[1])
    [] class = "join" -> TransformJoin(args[1], args[2], args[3], args[4])
    [] class = "mutate" -> TransformMutate(args[1], args[2])
    [] class = "notify" -> TransformNotify(args[1])
    [] class = "select" -> TransformSelect(args[1])
    [] class = "sequence" -> TransformSequence(args[1], args[2])
    [] class = "sort" -> TransformSort(args[1], args[2])
    [] class = "summarize" -> TransformSummarize(args[1], args[2])
    [] class = "ungroup" -> TransformUngroup
    [] class = "unique" -> TransformUnique(args[1])
    [] class = "bar" -> TransformBar(args[1], args[2], args[3])
    [] class = "box" -> TransformBox(args[1], args[2], args[3])
    [] class = "dot" -> TransformDot(args[1], args[2])
    [] class = "histogram" -> TransformHistogram(args[1], args[2], args[3])
    [] class = "scatter" ->
         TransformScatter(args[1], args[2], args[3], args[4])
    [] class = "ttest_one" ->
         TransformTTestOneSample(args[1], args[2], args[3])
    [] class = "ttest_two" ->
         TransformTTestPaired(args[1], args[2], args[3])

ColumnNames == {"a", "b", "c"}

\* Every array of at most MaxCols column names, repeats included.
ColumnLists ==
  {Arr(s) : s \in UNION {[1..n -> {Str(c) : c \in ColumnNames}] : n \in 0..MaxCols}}

Strings == {Str("a"), Str("b")}
Exprs == {Expr("a", Num(1)), Expr("b", Num(1))}
Ops == {Str("sum"), Str("mean"), Str("mode"), Str("toString")}

\* The argument lists the constructors are called with, well typed and not.
ArgsOf(class) ==
  CASE class = "data" -> {<<d>> : d \in Strings \cup {Undefined}}
    [] class \in {"drop", "groupBy", "select", "unique"} ->
         {<<c>> : c \in ColumnLists \cup {Str("a")}}
    [] class = "filter" -> {<<e>> : e \in Exprs \cup {Str("a")}}
    [] class = "join" ->
         {<<l, lc, r, rc>> : l \in Strings, lc \in {Str("a"), Undefined},
                             r \in {Str("b"), Undefined}, rc \in Strings}
    [] class = "mutate" ->
         {<<n, e>> : n \in {Str("a"), Undefined}, e \in Exprs \cup {Undefined}}
    [] class = "notify" -> {<<l>> : l \in Strings \cup {Undefined}}
    [] class = "sequence" ->
         {<<n, l>> : n \in Strings, l \in {Num(1), Num(2), Undefined}}
    [] class = "sort" ->
         {<<c, r>> : c \in ColumnLists, r \in {Bool(TRUE), Bool(FALSE)}}
           \cup {<<Arr(<<Str("a")>>), Str("TRUE")>>, <<Str("a"), Bool(TRUE)>>}
    [] class = "summarize" -> {<<o, c>> : o \in Ops, c \in {Str("a"), Undefined}}
    [] class = "ungroup" -> {<<>>}
    [] class \in {"bar", "box"} ->
         {<<l, ax, ay>> : l \in Strings \cup {Str("")}, ax \in Strings,
                          ay \in {Str("b"), Undefined}}
    [] class = "dot" -> {<<l, ax>> : l \in Strings, ax \in Strings \cup {Str("")}}
    [] class = "histogram" ->
         {<<l, c, b>> : l \in Strings, c \in {Str("a")},
                        b \in {Num(1), Num(2), Num(0), Str("a")}}
    [] class = "scatter" ->
         {<<l, ax, ay, c>> : l \in Strings, ax \in {Str("a")}, ay \in Strings,
                             c \in {Null, Str("c"), Str("")}}
    [] class = "ttest_one" ->
         {<<l, c, m>> : l \in Strings \cup {Undefined}, c \in {Str("a"), Undefined},
                        m \in {Num(1), Num(2), Undefined}}
    [] class = "ttest_two" ->
         {<<l, lc, vc>> : l \in Strings \cup {Undefined}, lc \in Strings,
                          vc \in {Str("b"), Undefined}}

\* ------------------------------------------------- the transforms that run

\* The transform objects the pipelines are made of, at least one of each class.
PoolKeys ==
  {"read", "join", "drop", "filter", "groupBy", "mutate", "select",
   "sort", "summarize", "ungroup", "unique", "sequence", "sequence_none",
   "notify", "bar", "box", "dot", "histogram", "scatter", "ttest_one",
   "ttest_two"}

Pool(self) ==
  CASE self = "read" -> TransformData(Str("a"))
    [] self = "join" -> TransformJoin(Str("a"), Str("g"), Str("b"), Str("g"))
    [] self = "drop" -> TransformDrop(Arr(<<Str("v")>>))
    [] self = "filter" -> TransformFilter(Expr("g", Str("x")))
    [] self = "groupBy" -> TransformGroupBy(Arr(<<Str("g")>>))
    [] self = "mutate" -> TransformMutate(Str("m"), Expr("v", Num(1)))
    [] self = "select" -> TransformSelect(Arr(<<Str("g")>>))
    [] self = "sort" -> TransformSort(Arr(<<Str("g"), Str("v")>>), Bool(TRUE))
    [] self = "summarize" -> TransformSummarize(Str("sum"), Str("v"))
    [] self = "ungroup" -> TransformUngroup
    [] self = "unique" -> TransformUnique(Arr(<<Str("g")>>))
    [] self = "sequence" -> TransformSequence(Str("n"), Num(2))
    [] self = "sequence_none" -> TransformSequence(Str("n"), Undefined)
    [] self = "notify" -> TransformNotify(Str("out"))
    [] self = "bar" -> TransformBar(Str("p"), Str("g"), Str("v"))
    [] self = "box" -> TransformBox(Str("p"), Str("g"), Str("v"))
    [] self = "dot" -> TransformDot(Str("q"), Str("g"))
    [] self = "histogram" -> TransformHistogram(Str("q"), Str("v"), Num(2))
    [] self = "scatter" -> TransformScatter(Str("p"), Str("g"), Str("v"), Null)
    [] self = "ttest_one" -> TransformTTestOneSample(Str("t"), Str("v"), Num(1))
    [] self = "ttest_two" -> TransformTTestPaired(Str("s"), Str("g"), Str("v"))

PlotKeys == {k \in PoolKeys : Pool(k).name \in PlotNames}

\* The transform object as it is now: its fields as constructed, but for the
\* data.values slot of a plot's spec, which lives on the heap.
This(self, heap) ==
  IF self \in PlotKeys
  THEN [Pool(self) EXCEPT !.spec.data.values = heap.values[self]]
  ELSE Pool(self)

DatasetNames == {"a", "b"}
PlotLabels == {"p", "q"}
StatsLabels == {"s", "t"}

\* The datasets the driver stores.  Dataset a comes in two versions, with two
\* and with three labels in column g; b has three labels.
Versions(name) == IF name = "a" THEN {"a1", "a2"} ELSE {"b1"}

Dataset(version) ==
  CASE version = "a1" ->
         DataFrame(1, Arr(<<[g |-> Str("x"), v |-> Num(1)],
                            [g |-> Str("y"), v |-> Num(2)],
                            [g |-> Str("x"), v |-> Num(3)],
                            [g |-> Str("y"), v |-> Num(4)]>>), {"g", "v"})
    [] version = "a2" ->
         DataFrame(2, Arr(<<[g |-> Str("z"), v |-> Num(3)],
                            [g |-> Str("x"), v |-> Num(1)],
                            [g |-> Str("y"), v |-> Num(2)]>>), {"g", "v"})
    [] version = "b1" ->
         DataFrame(3, Arr(<<[g |-> Str("x"), v |-> Num(1)],
                            [g |-> Str("y"), v |-> Num(2)],
                            [g |-> Str("z"), v |-> Num(3)]>>), {"g", "v"})

Datasets == {Dataset(v) : v \in UNION {Versions(n) : n \in DatasetNames}}

\* Every pipeline of at most MaxStages transforms.
Pipelines == UNION {[1..n -> PoolKeys] : n \in 1..MaxStages}

\* ------------------------------------------------------------------ state

VARIABLES
  pipeline, \* the transforms of the pipeline, in order
  pass,     \* 1 in the pipeline's first execution, 2 in its second
  pc,       \* the next stage to run
  failed,   \* did a stage of this execution throw?
  df,       \* the dataframe handed to the next stage (null at the start)
  env,      \* the Environment: data, log, plots, stats, fetched
  heap,     \* nextId: the next object identity; values: the data.values
            \* slot of each plot transform's spec object
  last,     \* the last run call: [pass, pc, self, arg, ret]
  first,    \* how the first execution ended: [log, failed, df, data]
  left,     \* a constructor call and what it gave: [class, args, obj]
  right,    \* a second constructor call
  eq,       \* what left.obj.equal(right.obj) gave, NotCalled before the call
  nextId,   \* TbManager: the tag the next block made gets
  block,    \* the stage block makeCode was last given
  code      \* what makeCode gave for it: the emitted call, or a compile error

runVars == <<pipeline, pass, pc, failed, df, env, heap, last, first>>
equalVars == <<left, right, eq>>
compileVars == <<nextId, block, code>>
vars == <<runVars, equalVars, compileVars>>

NotCalled == [none |-> TRUE]
NoPlot == [none |-> TRUE]
NoStats == [none |-> TRUE]

\* A new Environment, and no plot drawn yet.
NewEnvironment ==
  [data |-> [n \in DatasetNames |-> Absent], log |-> <<>>,
   plots |-> [l \in PlotLabels |-> NoPlot],
   stats |-> [l \in StatsLabels |-> NoStats], fetched |-> <<>>]

InitRun(p) ==
  /\ pipeline = p
  /\ pass = 1
  /\ pc = 1
  /\ failed = FALSE
  /\ df = Null
  /\ env = NewEnvironment
  /\ heap = [nextId |-> Cardinality(Datasets) + 1,
             values |-> [k \in PlotKeys |-> Null]]
  /\ last = NotCalled
  /\ first = NotCalled

InitConstruct ==
  /\ left = NotCalled
  /\ right = NotCalled
  /\ eq = NotCalled

\* TbManager as loaded: no block made, no code generated.
InitCompile == nextId = 0 /\ block = NotCalled /\ code = NotCalled

Init == (\E p \in Pipelines : InitRun(p)) /\ InitConstruct /\ InitCompile

Ended == failed \/ pc > Len(pipeline)

\* The driver stores a dataset, or a new version of it, before an execution
\* of the pipeline starts (the stages of one execution run back to back).
StoreData ==
  \E n \in DatasetNames : \E version \in Versions(n) :
    /\ pc = 1
    /\ env.data[n] # Dataset(version)
    /\ env' = [env EXCEPT !.data[n] = Dataset(version)]
    /\ UNCHANGED <<pipeline, pass, pc, failed, df, heap, last, first>>
    /\ UNCHANGED <<equalVars, compileVars>>

\* df = transform.run(env, df) for the next stage; a throw ends the execution.
RunStage ==
  /\ ~Ended
  /\ LET self == pipeline[pc]
         r == run(self, This(self, heap), [env |-> env, heap |-> heap], df)
     IN /\ env' = r.w.env
        /\ heap' = r.w.heap
        /\ failed' = IsThrown(r.ret)
        /\ df' = IF IsThrown(r.ret) THEN df ELSE r.ret
        /\ last' = [pass |-> pass, pc |-> pc, self |-> self, arg |-> df,
                    ret |-> r.ret]
  /\ pc' = pc + 1
  /\ UNCHANGED <<pipeline, pass, first>>
  /\ UNCHANGED <<equalVars, compileVars>>

\* The same pipeline is run a second time against the same Environment.
Rerun ==
  /\ Ended
  /\ pass = 1
  /\ pass' = 2
  /\ pc' = 1
  /\ failed' = FALSE
  /\ df' = Null
  /\ first' = [log |-> env.log, failed |-> failed, df |-> df,
               data |-> env.data]
  /\ UNCHANGED <<pipeline, env, heap, last>>
  /\ UNCHANGED <<equalVars, compileVars>>

Next == StoreData \/ RunStage \/ Rerun

Spec == Init /\ [][Next]_vars

\* ------------------------------------------- constructing and comparing

Call(class, args) == [class |-> class, args |-> args, obj |-> New(class, args)]

Constructed(c) == c # NotCalled /\ ~IsThrown(c.obj)

InitEqual == InitRun(<<"ungroup">>) /\ InitConstruct /\ InitCompile

\* const left = new Class(...args), once
ConstructLeft ==
  \E class \in Classes : \E args \in ArgsOf(class) :
    /\ left = NotCalled
    /\ left' = Call(class, args)
    /\ eq' = NotCalled
    /\ UNCHANGED right
    /\ UNCHANGED <<runVars, compileVars>>

\* const right = new Class(...args), once
ConstructRight ==
  \E class \in Classes : \E args \in ArgsOf(class) :
    /\ left # NotCalled
    /\ right = NotCalled
    /\ right' = Call(class, args)
    /\ eq' = NotCalled
    /\ UNCHANGED left
    /\ UNCHANGED <<runVars, compileVars>>

\* left.obj.equal(right.obj)
CallEqual ==
  /\ Constructed(left)
  /\ Constructed(right)
  /\ eq = NotCalled
  /\ eq' = equal(left.obj, right.obj)
  /\ UNCHANGED <<left, right>>
  /\ UNCHANGED <<runVars, compileVars>>

NextEqual == ConstructLeft \/ ConstructRight \/ CallEqual

SpecEqual == InitEqual /\ [][NextEqual]_vars

\* ------------------------------------------------- generating code

MaxChars == 3
MaxItems == 2
MaxBlocks == 4

\* The characters of a MULTIPLE_COLUMNS field; a string is a sequence of them.
Chars == {"r", "g", ","}
Texts == UNION {[1..n -> Chars] : n \in 0..MaxChars}

\* A split that leaves the text whole.
Split_Whole(text) == <<text>>

\* text.split(','): the parts between the commas, "" included.
RECURSIVE Split(_)
Split(text) ==
  IF text = <<>> THEN << <<>> >>
  ELSE LET rest == Split(Tail(text))
       IN IF Head(text) = "," THEN << <<>> >> \o rest
          ELSE << <<Head(text)>> \o Head(rest) >> \o Tail(rest)

\* The spellings a DESCENDING field is given.
Spellings == {"TRUE", "FALSE", "true", ""}

CompileError == Thrown("CompileError")

\* DESCENDING as a boolean: 'TRUE' and 'FALSE' and nothing else.
Descending(spelling) ==
  CASE spelling = "TRUE" -> Returned(TRUE)
    [] spelling = "FALSE" -> Returned(FALSE)
    [] OTHER -> CompileError

\* The stage blocks the tests generate code for, one at a time.
Items ==
  UNION {[1..n -> {[_b |-> "transform_summarize_item", FUNC |-> f,
                    COLUMN |-> "someColumn"] : f \in {"tbMean", "tbSum"}}] :
           n \in 1..MaxItems}
Blocks ==
  {[_b |-> "transform_ungroup"]}
    \cup {[_b |-> "transform_groupBy", MULTIPLE_COLUMNS |-> t] : t \in Texts}
    \cup {[_b |-> "transform_sort", MULTIPLE_COLUMNS |-> t, DESCENDING |-> d] :
            t \in Texts, d \in Spellings}
    \cup {[_b |-> "transform_summarize", COLUMN_FUNC_PAIR |-> i] : i \in Items}

\* makeBlock numbers the blocks as it makes them, a block's children before
\* the block itself: the blocks of b take the tags from..from + Made(b) - 1.
Made(b) ==
  IF b._b = "transform_summarize" THEN Len(b.COLUMN_FUNC_PAIR) + 1 ELSE 1
Tag(b, from) == from + Made(b) - 1

\* '.ungroup(tag)'
transform_ungroup(b, from) == [call |-> "ungroup", tag |-> Tag(b, from)]

\* '.groupBy(tag, [columns])'
transform_groupBy(b, from) ==
  [call |-> "groupBy", tag |-> Tag(b, from),
   columns |-> Split(b.MULTIPLE_COLUMNS)]

\* '.sort(tag, [columns], descending)'
transform_sort(b, from) ==
  IF IsThrown(Descending(b.DESCENDING)) THEN CompileError
  ELSE [call |-> "sort", tag |-> Tag(b, from),
        columns |-> Split(b.MULTIPLE_COLUMNS),
        descending |-> Descending(b.DESCENDING).result]

\* '.summarize(tag, [itemTag, FUNC, "COLUMN"], ...)'
transform_summarize(b, from) ==
  [call |-> "summarize", tag |-> Tag(b, from),
   items |-> [i \in DOMAIN b.COLUMN_FUNC_PAIR |->
                [tag |-> from + i - 1,
                 func |-> b.COLUMN_FUNC_PAIR[i].FUNC,
                 column |-> b.COLUMN_FUNC_PAIR[i].COLUMN]]]

\* makeCode(pipeline) for a block whose first tag is from
makeCode(b, from) ==
  CASE b._b = "transform_ungroup" -> transform_ungroup(b, from)
    [] b._b = "transform_groupBy" -> transform_groupBy(b, from)
    [] b._b = "transform_sort" -> transform_sort(b, from)
    [] b._b = "transform_summarize" -> transform_summarize(b, from)

\* TbManager.reset()
Reset ==
  /\ nextId' = 0
  /\ block' = NotCalled
  /\ code' = NotCalled
  /\ UNCHANGED <<runVars, equalVars>>

\* const code = makeCode(pipeline)
MakeCode ==
  \E b \in Blocks :
    /\ nextId + Made(b) <= MaxBlocks
    /\ nextId' = nextId + Made(b)
    /\ block' = b
    /\ code' = makeCode(b, nextId)
    /\ UNCHANGED <<runVars, equalVars>>

NextCompile == Reset \/ MakeCode

SpecCompile == InitEqual /\ [][NextCompile]_vars

\* --------------------------------------------- claims about generating code

\* C13: the first stage compiled after a reset is emitted with tag 0, and
\* each further stage with a tag one greater than the stage before it,
\* whatever tags the stage's items were given.
C13_StageTagsCountStages ==
  [][(code' # code /\ code' # NotCalled /\ ~IsThrown(code')) =>
       IF code = NotCalled THEN code'.tag = 0
       ELSE ~IsThrown(code) => code'.tag = code.tag + 1]_vars

\* Joining the parts of a split with commas.
RECURSIVE JoinComma(_)
JoinComma(parts) ==
  IF Len(parts) = 1 THEN Head(parts)
  ELSE Head(parts) \o <<",">> \o JoinComma(Tail(parts))

RunCall == last' # last

\* The error kinds of the run-time failures, by the message thrown.
InvariantViolation(name) ==
  IF name = "read" THEN Thrown("Cannot provide input dataframe to reader")
  ELSE Thrown("Cannot provide input dataframe to join")
InvalidGrouping == Thrown("Must have exactly two labels for data")
DependencyUnavailable == Thrown("DependencyUnavailable")

\* The spec object registered under a plot label, as it reads now.
PlotSpec(ref, h) == This(ref.ref, h).spec

\* The labels the label column of a dataframe holds.
LabelsOf(this, frame) ==
  {Cell(frame.data.v[i], PropertyKey(this.labelCol)) : i \in DOMAIN frame.data.v}

\* C1: every call of run, of every transform, appends exactly one entry to
\* the log, the transform's name, whether the call then succeeds or fails.
C1_RunLogsItsName ==
  [][RunCall => env'.log = Append(env.log, Pool(last'.self).name)]_vars

\* A call of run failed, and the log ends with the transform's name.
C1_Witness ==
  /\ last # NotCalled
  /\ IsThrown(last.ret)
  /\ env.log # <<>>
  /\ env.log[Len(env.log)] = Pool(last.self).name

\* C2: a join's run(env, null) fails with DependencyUnavailable when its left
\* or its right dataset is absent, and succeeds when both are present.
C2_JoinNeedsBothDatasets ==
  [][(RunCall /\ Pool(last'.self).name = "join" /\ last'.arg = Null) =>
       LET this == Pool(last'.self)
       IN IF \/ env.data[this.leftName.v] = Absent
             \/ env.data[this.rightName.v] = Absent
          THEN last'.ret = DependencyUnavailable
          ELSE ~IsThrown(last'.ret) /\ IsDataFrame(last'.ret)]_vars

\* The join failed in the first execution and, the datasets stored since,
\* succeeded in the second.
C2_Witness ==
  /\ pass = 2
  /\ first # NotCalled /\ first.failed
  /\ last.pass = 2
  /\ Pool(last.self).name = "join"
  /\ IsDataFrame(last.ret)

\* C3: a paired t-test's run fails with InvalidGrouping when the label column
\* of its input has a number of distinct values other than two, and then
\* leaves the statistics as they were; with exactly two it records one
\* statistic, under its label.
C3_PairedTestWantsTwoLabels ==
  [][(RunCall /\ Pool(last'.self).name = "ttest_two" /\ IsDataFrame(last'.arg)) =>
       LET this == Pool(last'.self)
       IN IF Cardinality(LabelsOf(this, last'.arg)) # 2
          THEN last'.ret = InvalidGrouping /\ env'.stats = env.stats
          ELSE /\ last'.ret = last'.arg
               /\ env'.stats[this.label.v].t = "pValue"
               /\ \A l \in StatsLabels \ {this.label.v} :
                    env'.stats[l] = env.stats[l]]_vars

\* The paired t-test was given three labels, and failed.
C3_Witness ==
  /\ last # NotCalled
  /\ last.self = "ttest_two"
  /\ IsDataFrame(last.arg)
  /\ Cardinality(LabelsOf(Pool(last.self), last.arg)) = 3
  /\ last.ret = InvalidGrouping

\* C4: read and join fail with InvariantViolation when given anything but
\* null, fetching no dataset; given null, read fetches its dataset and returns
\* a new dataframe with the dataset's content.
C4_ReadersRefuseInput ==
  [][(RunCall /\ Pool(last'.self).name \in {"read", "join"}) =>
       LET this == Pool(last'.self)
       IN IF last'.arg # Null
          THEN /\ last'.ret = InvariantViolation(this.name)
               /\ env'.fetched = env.fetched
          ELSE this.name = "read" =>
                 /\ env'.fetched = Append(env.fetched, this.dataset.v)
                 /\ env.data[this.dataset.v] # Absent =>
                      /\ IsDataFrame(last'.ret)
                      /\ Content(last'.ret) = Content(env.data[this.dataset.v])
                      /\ last'.ret.id = heap.nextId
                      /\ \A d \in Datasets : last'.ret.id # d.id]_vars

\* A read was given a dataframe, and failed.
C4_Witness ==
  /\ last # NotCalled
  /\ last.self = "read"
  /\ IsDataFrame(last.arg)
  /\ last.ret = InvariantViolation("read")

\* C8: no call of run changes a field of a transform object, and what a run
\* registered in the Environment does not change unless a run registers it
\* anew.
C8_TransformsImmutable ==
  [][/\ \A k \in PoolKeys : This(k, heap') = This(k, heap)
     /\ \A l \in PlotLabels :
          (env.plots[l] # NoPlot /\ env'.plots[l] = env.plots[l]) =>
            \/ PlotSpec(env.plots[l], heap') = PlotSpec(env.plots[l], heap)
            \/ /\ RunCall
               /\ ~IsThrown(last'.ret)
               /\ last'.self = env.plots[l].ref]_vars

\* C9: a call of run that fails leaves the datasets, the plots and the
\* statistics of the Environment as they were, and appends its one log entry.
C9_FailureLeavesEnvironment ==
  [][(RunCall /\ IsThrown(last'.ret)) =>
       /\ env'.data = env.data
       /\ env'.plots = env.plots
       /\ env'.stats = env.stats
       /\ \A l \in PlotLabels :
            env.plots[l] # NoPlot =>
              PlotSpec(env.plots[l], heap') = PlotSpec(env.plots[l], heap)
       /\ env'.log = Append(env.log, Pool(last'.self).name)]_vars

\* A call failed with a statistic of an earlier run already in place.
C9_Witness ==
  /\ last # NotCalled
  /\ IsThrown(last.ret)
  /\ \E l \in StatsLabels : env.stats[l] # NoStats

\* The stages that only write a side channel.
SideChannel == {"notify", "ttest_one", "ttest_two"} \cup PlotNames

\* C15: a run of a side-channel stage (notify, a plot, a t-test) that
\* succeeds returns the very dataframe it was given.
C15_SideChannelReturnsInput ==
  [][(/\ RunCall
      /\ Pool(last'.self).name \in SideChannel
      /\ IsDataFrame(last'.arg)
      /\ ~IsThrown(last'.ret))
       => last'.ret = last'.arg]_vars

\* What the call of run just made would have done given null instead.
GivenNull ==
  run(last'.self, This(last'.self, heap), [env |-> env, heap |-> heap], Null)

\* C17: a transform has input = false exactly when its run refuses a
\* dataframe, every transform with input = true reads the dataframe it is
\* given (its run does not come out the same whatever it is given), and a
\* transform has output = false exactly when it is a side-channel stage.
C17_FlagsAgreeWithRun ==
  [][(RunCall /\ IsDataFrame(last'.arg)) =>
       LET this == Pool(last'.self)
       IN /\ this.input = FALSE <=> last'.ret = InvariantViolation(this.name)
          /\ this.input = TRUE =>
               GivenNull # [w |-> [env |-> env', heap |-> heap'],
                            ret |-> last'.ret]
          /\ this.output = FALSE <=> this.name \in SideChannel]_vars

\* Are two results of a pipeline the same content?
SameContent(x, y) ==
  IF IsDataFrame(x) /\ IsDataFrame(y) THEN Content(x) = Content(y) ELSE x = y

\* C10: the second execution of a pipeline, against the datasets the first
\* one had, appends the first one's log entries again and ends with a
\* dataframe of the same content.
C10_RerunRepeatsLogAndContent ==
  (pass = 2 /\ Ended /\ env.data = first.data) =>
    /\ env.log = first.log \o first.log
    /\ failed = first.failed
    /\ SameContent(df, first.df)

\* Both executions of a two-stage pipeline ended with a dataframe, the
\* second with a new one.
C10_Witness ==
  /\ pass = 2 /\ Ended /\ ~failed
  /\ env.data = first.data
  /\ Len(pipeline) > 1
  /\ Len(env.log) = 2 * Len(pipeline)
  /\ IsDataFrame(df) /\ IsDataFrame(first.df)
  /\ df.data.v # <<>>
  /\ df.id # first.df.id

\* ------------------------------------------------- claims about equal

\* The set of column names a column-bearing transform lists.
ColumnSet(obj) == Range(obj.columns.v)

ColumnBearing == {"drop", "select", "groupBy", "sort", "unique"}

\* C5: two transforms of one kind that differ in any construction parameter
\* are not equal (equal returns false).
C5_DifferentParametersNotEqual ==
  (/\ Constructed(left) /\ Constructed(right) /\ eq # NotCalled
   /\ left.class = right.class
   /\ left.args # right.args
   /\ left.class \notin ColumnBearing)
    => eq = Returned(FALSE)

\* C5, the column-bearing kinds: here the parameters differ when the column
\* sets differ or, for sort, the descending flags differ.
C5_DifferentSortFlagsNotEqual ==
  (/\ Constructed(left) /\ Constructed(right) /\ eq # NotCalled
   /\ left.class = "sort" /\ right.class = "sort"
   /\ left.obj.reverse # right.obj.reverse)
    => eq = Returned(FALSE)

\* C5: equal is true exactly for the same kind with the same parameters.
C5_EqualIffSameKindAndParameters ==
  C5_DifferentParametersNotEqual /\ C5_DifferentSortFlagsNotEqual

\* C6: for the column-bearing kinds equal ignores the order of the column
\* list: permutations of one list are equal, and lists naming different sets
\* of columns are not.
C6_EqualIgnoresColumnOrder ==
  (/\ Constructed(left) /\ Constructed(right) /\ eq # NotCalled
   /\ left.class = right.class
   /\ left.class \in ColumnBearing)
    => /\ (ColumnSet(left.obj) # ColumnSet(right.obj)) => eq = Returned(FALSE)
       /\ (/\ Len(left.obj.columns.v) = Len(right.obj.columns.v)
           /\ \A c \in ColumnSet(left.obj) \cup ColumnSet(right.obj) :
                Cardinality({i \in DOMAIN left.obj.columns.v :
                               left.obj.columns.v[i] = c})
                  = Cardinality({i \in DOMAIN right.obj.columns.v :
                                   right.obj.columns.v[i] = c})
           /\ (left.class = "sort" => left.obj.reverse = right.obj.reverse))
            => eq = Returned(TRUE)

\* C16: for two column-bearing transforms of one kind, a.equal(b) and
\* b.equal(a) give the same answer, and the answer is true exactly when the
\* two column lists contain the same set of names, repeats or none.
C16_EqualColumnsIsSetEquality ==
  (/\ Constructed(left) /\ Constructed(right) /\ eq # NotCalled
   /\ left.class = right.class
   /\ left.class \in ColumnBearing
   /\ (left.class = "sort" => left.obj.reverse = right.obj.reverse))
    => /\ eq = equal(right.obj, left.obj)
       /\ eq = Returned(ColumnSet(left.obj) = ColumnSet(right.obj))

\* ------------------------------------------ claims about construction

UnknownOperation == Thrown("Unknown summarization operation")

\* C11: constructing a summarize transform fails with UnknownOperation for
\* every operation name outside the registry of summarizers (the column
\* being a string), so no summarize transform with such an operation exists.
C11_SummarizeRegistryClosed ==
  (/\ left # NotCalled
   /\ left.class = "summarize"
   /\ IsString(left.args[1])
   /\ IsString(left.args[2])
   /\ left.args[1].v \notin Summarize)
    => left.obj = UnknownOperation

\* The types the constructors' parameters are documented with (@param).
ParameterTypes(class) ==
  CASE class \in {"data", "notify"} -> <<"string">>
    [] class \in {"drop", "groupBy", "select", "unique"} -> <<"array">>
    [] class = "filter" -> <<"expr">>
    [] class = "join" -> <<"string", "string", "string", "string">>
    [] class = "mutate" -> <<"string", "expr">>
    [] class = "sequence" -> <<"string", "number">>
    [] class = "sort" -> <<"array", "boolean">>
    [] class = "summarize" -> <<"string", "string">>
    [] class = "ungroup" -> <<>>
    [] class \in {"bar", "box"} -> <<"string", "string", "string">>
    [] class = "dot" -> <<"string", "string">>
    [] class = "histogram" -> <<"string", "string", "number">>
    [] class = "scatter" -> <<"string", "string", "string", "string or null">>
    [] class = "ttest_one" -> <<"string", "string", "number">>
    [] class = "ttest_two" -> <<"string", "string", "string">>

HasType(x, type) ==
  CASE type = "string" -> IsString(x)
    [] type = "number" -> IsNumber(x)
    [] type = "boolean" -> IsBoolean(x)
    [] type = "array" -> IsArray(x)
    [] type = "expr" -> IsExpr(x)
    [] type = "string or null" -> IsString(x) \/ x = Null

\* Is some parameter of the call missing or of the wrong type?
Mistyped(c) ==
  \E i \in DOMAIN c.args : ~HasType(c.args[i], ParameterTypes(c.class)[i])

\* C12: a constructor call with a missing or wrong-typed parameter fails and
\* yields no transform object, for every class of transform.
C12_ConstructorsValidate ==
  (left # NotCalled /\ Mistyped(left)) => IsThrown(left.obj)

\* C7: a read transform's requires contains the name of the dataset it reads,
\* a join's requires is its left and right dataset names in that order, and
\* every other transform's requires is empty.
C7_RequiresDeclaresDependencies ==
  Constructed(left) =>
    CASE left.class = "data" -> left.obj.dataset \in Range(left.obj.requires.v)
      [] left.class = "join" ->
           left.obj.requires = Arr(<<left.obj.leftName, left.obj.rightName>>)
      [] OTHER -> left.obj.requires = Arr(<<>>)

====
